---- MODULE Spec2Model ----
(***************************************************************************)
(* Merkle Mountain Range of crypto/src/merkle/mmr/full.rs: the forest      *)
(* descriptor, the postorder node buffer, add, get, open, accumulator and  *)
(* the inner-node enumerator.                                              *)
(*                                                                         *)
(* Digests are symbolic terms written in prefix form as sequences of       *)
(* integers: a leaf digest is a one-element sequence <<v>> with v >= 1 and *)
(* merge(l, r) is <<0>> \o l \o r.  The encoding is injective, so two      *)
(* digests are equal exactly when they are the same tree of merges: the    *)
(* hash is collision free.  The Mmr never inspects a digest, so the caller *)
(* appends pairwise distinct leaf digests, int_to_node(1), int_to_node(2), *)
(* ... as the tests do: any other input is a renaming of this one.         *)
(***************************************************************************)
EXTENDS Integers, Sequences, FiniteSets, TLC

\* ------------------------------------------------------------------------
\* Bounds of the model
\* ------------------------------------------------------------------------

\* largest number of leaves appended to the Mmr
MaxLeaves == 16

\* largest number of peaks of an MmrPeaks handed to hash_peaks
MaxPeaks == 18

\* width of usize in the model (usize::BITS, scaled down)
BITS == 8

Pow2(n) == 2 ^ n

USIZE_MAX == Pow2(BITS) - 1

\* int_to_node(v), the leaf digests of the tests
int_to_node(v) == <<v>>

\* the positions the caller asks for: valid ones and some beyond the end
Positions == 0..(MaxLeaves + 1)

\* ------------------------------------------------------------------------
\* Integer helpers (usize bit operations)
\* ------------------------------------------------------------------------

RECURSIVE BitAnd(_, _)
BitAnd(a, b) ==
    IF a = 0 \/ b = 0 THEN 0
    ELSE (a % 2) * (b % 2) + 2 * BitAnd(a \div 2, b \div 2)

RECURSIVE BitOr(_, _)
BitOr(a, b) ==
    IF a = 0 THEN b
    ELSE IF b = 0 THEN a
    ELSE (IF a % 2 = 1 \/ b % 2 = 1 THEN 1 ELSE 0) + 2 * BitOr(a \div 2, b \div 2)

RECURSIVE BitXor(_, _)
BitXor(a, b) ==
    IF a = 0 THEN b
    ELSE IF b = 0 THEN a
    ELSE ((a + b) % 2) + 2 * BitXor(a \div 2, b \div 2)

\* usize::count_ones
RECURSIVE count_ones(_)
count_ones(x) == IF x = 0 THEN 0 ELSE (x % 2) + count_ones(x \div 2)

\* usize::ilog2 of x > 0 (it panics on 0: see leaf_to_corresponding_tree)
RECURSIVE ilog2(_)
ilog2(x) == IF x <= 1 THEN 0 ELSE 1 + ilog2(x \div 2)

\* number of trailing one bits of v
RECURSIVE TrailingOnes(_)
TrailingOnes(v) == IF v % 2 = 1 THEN 1 + TrailingOnes(v \div 2) ELSE 0

\* number of trailing zero bits of v > 0
RECURSIVE TrailingZeros(_)
TrailingZeros(v) == IF v % 2 = 0 THEN 1 + TrailingZeros(v \div 2) ELSE 0

\* x << n on usize: bits shifted past the width are lost
Shl(x, n) == (x * Pow2(n)) % Pow2(BITS)

RECURSIVE Reverse(_)
Reverse(s) == IF s = <<>> THEN <<>> ELSE Append(Reverse(Tail(s)), Head(s))

\* ------------------------------------------------------------------------
\* External collaborators
\* ------------------------------------------------------------------------

\* Rpo256::merge(&[left, right])
Merge(left, right) == <<0>> \o left \o right

\* TrueBitPositionIterator::new(value): indices of the set bits, ascending
RECURSIVE BitPositionsFrom(_, _)
BitPositionsFrom(value, bit) ==
    IF value = 0 THEN <<>>
    ELSE IF value % 2 = 1
         THEN <<bit>> \o BitPositionsFrom(value \div 2, bit + 1)
         ELSE BitPositionsFrom(value \div 2, bit + 1)

\* mutant: the indices come highest first
TrueBitPositionIterator_descending(value) == Reverse(BitPositionsFrom(value, 0))

TrueBitPositionIterator(value) == BitPositionsFrom(value, 0)

\* ------------------------------------------------------------------------
\* Forest arithmetic
\* ------------------------------------------------------------------------

\* Option<u32>::None
None == -1

\* the call did not return: ilog2 panics on zero
Panicked == -2

\* mutant: the lowest tree left after removing the leaves before, not the
\* highest
leaf_to_corresponding_tree_lowest(pos, forest) ==
    IF pos >= forest THEN None
    ELSE LET before == BitAnd(forest, pos)
             after  == BitXor(forest, before)
         IN  IF after = 0 THEN Panicked ELSE TrailingZeros(after)

\* mutant: the leaves before are kept with & where the code removes them with ^
leaf_to_corresponding_tree_and(pos, forest) ==
    IF pos >= forest THEN None
    ELSE LET before == BitAnd(forest, pos)
             after  == BitAnd(forest, before)
         IN  IF after = 0 THEN Panicked ELSE ilog2(after)

\* mutant: the bound test takes the last position as out of range
leaf_to_corresponding_tree_last_out(pos, forest) ==
    IF pos + 1 >= forest THEN None
    ELSE LET before == BitAnd(forest, pos)
             after  == BitXor(forest, before)
         IN  IF after = 0 THEN Panicked ELSE ilog2(after)

\* mutant: the leaves before the tree are taken with | where the code has &
leaf_to_corresponding_tree_or(pos, forest) ==
    IF pos >= forest THEN None
    ELSE LET before == BitOr(forest, pos)
             after  == BitXor(forest, before)
         IN  IF after = 0 THEN Panicked ELSE ilog2(after)

\* mutant: the bound test lets the position just past the end through
leaf_to_corresponding_tree_past_end(pos, forest) ==
    IF pos > forest THEN None
    ELSE LET before == BitAnd(forest, pos)
             after  == BitXor(forest, before)
         IN  IF after = 0 THEN 0 ELSE ilog2(after)

leaf_to_corresponding_tree(pos, forest) ==
    IF pos >= forest THEN None
    ELSE LET before == BitAnd(forest, pos)
             after  == BitXor(forest, before)
         IN  IF after = 0 THEN Panicked ELSE ilog2(after)

\* mutant: no test of the bit against the width, the shift amount wraps
high_bitmask_wrapping(bit) == Shl(USIZE_MAX, bit % BITS)

high_bitmask(bit) ==
    IF bit > BITS - 1 THEN 0 ELSE Shl(USIZE_MAX, bit)

\* mutant: the roots are not taken off, one per tree
nodes_in_forest_no_trees(forest) == forest * 2

nodes_in_forest(forest) ==
    LET tree_count == count_ones(forest)
    IN  forest * 2 - tree_count

\* ------------------------------------------------------------------------
\* Values returned to the caller
\* ------------------------------------------------------------------------

NoDigest == <<>>

\* op: the operation that returned; arg: the position the caller passed;
\* status: "Ok", "Err" (MmrError::InvalidPosition), "None" (enumerator
\* exhausted), "True" / "False" (verify) or "Panic"; pos: the position carried
\* by the error or by the proof; value: a digest; list: a Merkle path, a peaks
\* list or the <<left, right>> children of an inner node; forest: the forest
\* of a proof or the num_leaves of an accumulator
Ret(op, arg, status, pos, value, list, f) ==
    [op |-> op, arg |-> arg, status |-> status, pos |-> pos, value |-> value,
     list |-> list, forest |-> f]

\* ------------------------------------------------------------------------
\* Mmr
\* ------------------------------------------------------------------------

VARIABLES
    forest,     \* Mmr.forest
    nodes,      \* Mmr.nodes, nodes[i + 1] is the entry at buffer index i
    leaves,     \* the digests the caller has appended, in order
    iter,       \* the MmrNodes enumerator borrowed from the Mmr, if any
    ret         \* what the last operation returned

vars == <<forest, nodes, leaves, iter, ret>>

NoIter == [live |-> FALSE, forest |-> 0, last_right |-> 0, index |-> 0]

\* mutant: an if where the code has a while, so only the first pair is merged
add_loop_once(f, ns, left_offset, right, left_tree) ==
    IF BitAnd(f, left_tree) # 0
    THEN Append(ns, Merge(ns[left_offset + 1], right))
    ELSE ns

\* mutant: the loop goes on while any tree of this size or larger exists
RECURSIVE add_loop_any_tree(_, _, _, _, _)
add_loop_any_tree(f, ns, left_offset, right, left_tree) ==
    IF f >= left_tree /\ left_tree # 0
    THEN LET merged == Merge(ns[left_offset + 1], right)
             sub    == nodes_in_forest(left_tree)
         IN  add_loop_any_tree(f, Append(ns, merged),
                               IF left_offset >= sub THEN left_offset - sub ELSE 0,
                               merged, Shl(left_tree, 1))
    ELSE ns

\* mutant: the newer tree is merged as the left operand, the older as the right
RECURSIVE add_loop_swapped(_, _, _, _, _)
add_loop_swapped(f, ns, left_offset, right, left_tree) ==
    IF BitAnd(f, left_tree) # 0
    THEN LET merged == Merge(right, ns[left_offset + 1])
             sub    == nodes_in_forest(left_tree)
         IN  add_loop_swapped(f, Append(ns, merged),
                              IF left_offset >= sub THEN left_offset - sub ELSE 0,
                              merged, Shl(left_tree, 1))
    ELSE ns

\* the merge loop of add: walks the trees of equal size from the right
RECURSIVE add_loop(_, _, _, _, _)
add_loop(f, ns, left_offset, right, left_tree) ==
    IF BitAnd(f, left_tree) # 0
    THEN LET merged == Merge(ns[left_offset + 1], right)
             sub    == nodes_in_forest(left_tree)
         IN  add_loop(f, Append(ns, merged),
                      IF left_offset >= sub THEN left_offset - sub ELSE 0,
                      merged, Shl(left_tree, 1))
    ELSE ns

\* mutant: the forest is set to the next tree mask instead of being incremented
add_forest_or(f, ns, el) ==
    LET pushed      == Append(ns, el)
        left_offset == IF Len(pushed) >= 2 THEN Len(pushed) - 2 ELSE 0
    IN  [forest |-> BitOr(f, 1),
         nodes  |-> add_loop(f, pushed, left_offset, el, 1)]

\* mutant: a merge overwrites the left root in place instead of pushing
add_in_place(f, ns, el) ==
    [forest |-> f + 1,
     nodes  |-> IF BitAnd(f, 1) # 0
                THEN Append([ns EXCEPT ![Len(ns)] = Merge(ns[Len(ns)], el)], el)
                ELSE Append(ns, el)]

\* Mmr::add
add(f, ns, el) ==
    LET pushed      == Append(ns, el)
        left_offset == IF Len(pushed) >= 2 THEN Len(pushed) - 2 ELSE 0
    IN  [forest |-> f + 1,
         nodes  |-> add_loop(f, pushed, left_offset, el, 1)]

\* mutant: the left child is looked for one entry too far to the left
RECURSIVE collect_loop_off_by_one(_, _, _, _, _, _)
collect_loop_off_by_one(ns, tree_depth, relative_pos, index_offset, index, path) ==
    IF tree_depth > 0
    THEN LET bit          == BitAnd(relative_pos, tree_depth)
             right_offset == index - 1
             left_offset  == right_offset - nodes_in_forest(tree_depth) - 1
             sibling_at   == IF bit # 0 THEN index_offset + left_offset
                                        ELSE index_offset + right_offset
             next_index   == IF bit # 0 THEN right_offset ELSE left_offset
         IN  IF right_offset < 0 \/ left_offset < 0
                \/ sibling_at >= Len(ns)
             THEN [panic |-> TRUE, value |-> NoDigest, path |-> <<>>, reads |-> <<>>]
             ELSE LET rest == collect_loop_off_by_one(ns, tree_depth \div 2, relative_pos,
                                           index_offset, next_index,
                                           Append(path, ns[sibling_at + 1]))
                  IN  [rest EXCEPT !.reads = <<sibling_at>> \o @]
    ELSE IF index_offset + index >= Len(ns)
         THEN [panic |-> TRUE, value |-> NoDigest, path |-> <<>>, reads |-> <<>>]
         ELSE [panic |-> FALSE, value |-> ns[index_offset + index + 1],
               path |-> Reverse(path), reads |-> <<index_offset + index>>]

\* the walk of collect_merkle_path_and_value from the root of the tree down;
\* reads lists the buffer indices read, the leaf last
RECURSIVE collect_loop(_, _, _, _, _, _)
collect_loop(ns, tree_depth, relative_pos, index_offset, index, path) ==
    IF tree_depth > 0
    THEN LET bit          == BitAnd(relative_pos, tree_depth)
             right_offset == index - 1
             left_offset  == right_offset - nodes_in_forest(tree_depth)
             sibling_at   == IF bit # 0 THEN index_offset + left_offset
                                        ELSE index_offset + right_offset
             next_index   == IF bit # 0 THEN right_offset ELSE left_offset
         IN  IF right_offset < 0 \/ left_offset < 0
                \/ sibling_at >= Len(ns)
             THEN [panic |-> TRUE, value |-> NoDigest, path |-> <<>>, reads |-> <<>>]
             ELSE LET rest == collect_loop(ns, tree_depth \div 2, relative_pos,
                                           index_offset, next_index,
                                           Append(path, ns[sibling_at + 1]))
                  IN  [rest EXCEPT !.reads = <<sibling_at>> \o @]
    ELSE IF index_offset + index >= Len(ns)
         THEN [panic |-> TRUE, value |-> NoDigest, path |-> <<>>, reads |-> <<>>]
         ELSE [panic |-> FALSE, value |-> ns[index_offset + index + 1],
               path |-> Reverse(path), reads |-> <<index_offset + index>>]

\* Mmr::collect_merkle_path_and_value
collect_merkle_path_and_value(ns, tree_bit, relative_pos, index_offset, index) ==
    collect_loop(ns, tree_bit, relative_pos, index_offset, index, <<>>)

\* the part get and open share: locate the tree, then walk it
locate_and_collect(f, ns, pos) ==
    LET tree_bit      == leaf_to_corresponding_tree(pos, f)
        forest_target == Shl(1, tree_bit)
        forest_before == BitAnd(f, high_bitmask(tree_bit + 1))
        index_offset  == nodes_in_forest(forest_before)
        index         == nodes_in_forest(forest_target) - 1
        relative_pos  == pos - forest_before
    IN  IF index < 0 \/ relative_pos < 0
        THEN [panic |-> TRUE, value |-> NoDigest, path |-> <<>>, reads |-> <<>>]
        ELSE collect_merkle_path_and_value(ns, tree_bit, relative_pos,
                                           index_offset, index)

\* Mmr::get
get(f, ns, pos) ==
    IF leaf_to_corresponding_tree(pos, f) = None
    THEN Ret("get", pos, "Err", pos, NoDigest, <<>>, 0)
    ELSE LET r == locate_and_collect(f, ns, pos)
         IN  IF leaf_to_corresponding_tree(pos, f) = Panicked \/ r.panic
             THEN Ret("get", pos, "Panic", pos, NoDigest, <<>>, 0)
             ELSE Ret("get", pos, "Ok", pos, r.value, <<>>, 0)

\* mutant: the proof carries the position relative to the owning tree
open_relative(f, ns, pos) ==
    IF leaf_to_corresponding_tree(pos, f) = None
    THEN Ret("open", pos, "Err", pos, NoDigest, <<>>, 0)
    ELSE LET r        == locate_and_collect(f, ns, pos)
             tree_bit == leaf_to_corresponding_tree(pos, f)
         IN  IF tree_bit = Panicked \/ r.panic
             THEN Ret("open", pos, "Panic", pos, NoDigest, <<>>, 0)
             ELSE Ret("open", pos, "Ok", pos - BitAnd(f, high_bitmask(tree_bit + 1)),
                      NoDigest, r.path, f)

\* Mmr::open: the proof is {forest, position, merkle_path}
open(f, ns, pos) ==
    IF leaf_to_corresponding_tree(pos, f) = None
    THEN Ret("open", pos, "Err", pos, NoDigest, <<>>, 0)
    ELSE LET r == locate_and_collect(f, ns, pos)
         IN  IF leaf_to_corresponding_tree(pos, f) = Panicked \/ r.panic
             THEN Ret("open", pos, "Panic", pos, NoDigest, <<>>, 0)
             ELSE Ret("open", pos, "Ok", pos, NoDigest, r.path, f)

\* the scan of accumulator: running offsets of the trees, highest tree first
RECURSIVE scan_offsets(_, _)
scan_offsets(sizes, offset) ==
    IF sizes = <<>> THEN <<>>
    ELSE <<offset + Head(sizes)>> \o scan_offsets(Tail(sizes), offset + Head(sizes))

\* .map(|bit| nodes_in_forest(1 << bit))
RECURSIVE tree_sizes(_)
tree_sizes(bits) ==
    IF bits = <<>> THEN <<>>
    ELSE <<nodes_in_forest(Shl(1, Head(bits)))>> \o tree_sizes(Tail(bits))

\* .map(|offset| self.nodes[offset - 1])
RECURSIVE entries_at(_, _)
entries_at(ns, offsets) ==
    IF offsets = <<>> THEN <<>>
    ELSE <<ns[Head(offsets)]>> \o entries_at(ns, Tail(offsets))

\* mutant: num_leaves is taken from the buffer length
accumulator_node_count(f, ns) ==
    LET bits    == Reverse(TrueBitPositionIterator(f))
        offsets == scan_offsets(tree_sizes(bits), 0)
    IN  IF \E i \in 1..Len(offsets) : offsets[i] - 1 < 0 \/ offsets[i] - 1 >= Len(ns)
        THEN Ret("accumulator", 0, "Panic", 0, NoDigest, <<>>, 0)
        ELSE Ret("accumulator", 0, "Ok", 0, NoDigest, entries_at(ns, offsets), Len(ns))

\* mutant: the .rev() is missing, the trees are walked lowest first
accumulator_no_rev(f, ns) ==
    LET bits    == TrueBitPositionIterator(f)
        offsets == scan_offsets(tree_sizes(bits), 0)
    IN  IF \E i \in 1..Len(offsets) : offsets[i] - 1 < 0 \/ offsets[i] - 1 >= Len(ns)
        THEN Ret("accumulator", 0, "Panic", 0, NoDigest, <<>>, 0)
        ELSE Ret("accumulator", 0, "Ok", 0, NoDigest, entries_at(ns, offsets), f)

\* mutant: the lowest peak is read at nodes[len - 1] without a guard
accumulator_unguarded(f, ns) ==
    LET bits    == Reverse(TrueBitPositionIterator(f))
        offsets == scan_offsets(tree_sizes(bits), 0)
        higher  == IF offsets = <<>> THEN <<>>
                   ELSE SubSeq(offsets, 1, Len(offsets) - 1)
    IN  IF Len(ns) - 1 < 0
        THEN Ret("accumulator", 0, "Panic", 0, NoDigest, <<>>, 0)
        ELSE Ret("accumulator", 0, "Ok", 0, NoDigest,
                 Append(entries_at(ns, higher), ns[Len(ns)]), f)

\* Mmr::accumulator: MmrPeaks {num_leaves, peaks}
accumulator(f, ns) ==
    LET bits    == Reverse(TrueBitPositionIterator(f))
        offsets == scan_offsets(tree_sizes(bits), 0)
    IN  IF \E i \in 1..Len(offsets) : offsets[i] - 1 < 0 \/ offsets[i] - 1 >= Len(ns)
        THEN Ret("accumulator", 0, "Panic", 0, NoDigest, <<>>, 0)
        ELSE Ret("accumulator", 0, "Ok", 0, NoDigest, entries_at(ns, offsets), f)

\* Mmr::inner_nodes
inner_nodes == [live |-> TRUE, forest |-> 0, last_right |-> 0, index |-> 0]

\* mutant: the single-leaf tree is not removed from the target
MmrNodes_next_full_target(f, ns, it) ==
    LET target == f
    IN  IF it.forest < target
        THEN LET fresh       == it.last_right = 0
                 forest1     == IF fresh THEN BitOr(it.forest, 1) ELSE it.forest
                 last_right1 == IF fresh THEN BitOr(it.last_right, 1) ELSE it.last_right
                 index1      == IF fresh THEN it.index + 2 ELSE it.index
                 right_nodes == nodes_in_forest(last_right1)
                 parent      == Shl(last_right1, 1)
                 forest2     == BitXor(forest1, last_right1)
                 is_left     == BitAnd(forest2, parent) = 0
                 asserts     == /\ count_ones(it.last_right) <= 1
                                /\ BitAnd(forest1, last_right1) # 0
                                /\ is_left => BitAnd(forest2, 1) = 0
                 in_bounds   == /\ index1 < Len(ns)
                                /\ index1 - 1 - right_nodes >= 0
             IN  IF asserts /\ in_bounds
                 THEN [it  |-> [live |-> TRUE,
                                forest |-> IF is_left THEN BitXor(forest2, parent) ELSE forest2,
                                last_right |-> IF is_left THEN 0 ELSE parent,
                                index |-> index1 + 1],
                       ret |-> Ret("next", 0, "Ok", 0, ns[index1 + 1],
                                   <<ns[index1 - right_nodes], ns[index1]>>, 0)]
                 ELSE [it  |-> it,
                       ret |-> Ret("next", 0, "Panic", 0, NoDigest, <<>>, 0)]
        ELSE [it |-> it, ret |-> Ret("next", 0, "None", 0, NoDigest, <<>>, 0)]

\* mutant: the record carries the right child as left and the left as right
MmrNodes_next_swapped(f, ns, it) ==
    LET target == BitAnd(f, Shl(USIZE_MAX, 1))
    IN  IF it.forest < target
        THEN LET fresh       == it.last_right = 0
                 forest1     == IF fresh THEN BitOr(it.forest, 1) ELSE it.forest
                 last_right1 == IF fresh THEN BitOr(it.last_right, 1) ELSE it.last_right
                 index1      == IF fresh THEN it.index + 2 ELSE it.index
                 right_nodes == nodes_in_forest(last_right1)
                 parent      == Shl(last_right1, 1)
                 forest2     == BitXor(forest1, last_right1)
                 is_left     == BitAnd(forest2, parent) = 0
                 asserts     == /\ count_ones(it.last_right) <= 1
                                /\ BitAnd(forest1, last_right1) # 0
                                /\ is_left => BitAnd(forest2, 1) = 0
                 in_bounds   == /\ index1 < Len(ns)
                                /\ index1 - 1 - right_nodes >= 0
             IN  IF asserts /\ in_bounds
                 THEN [it  |-> [live |-> TRUE,
                                forest |-> IF is_left THEN BitXor(forest2, parent) ELSE forest2,
                                last_right |-> IF is_left THEN 0 ELSE parent,
                                index |-> index1 + 1],
                       ret |-> Ret("next", 0, "Ok", 0, ns[index1 + 1],
                                   <<ns[index1], ns[index1 - right_nodes]>>, 0)]
                 ELSE [it  |-> it,
                       ret |-> Ret("next", 0, "Panic", 0, NoDigest, <<>>, 0)]
        ELSE [it |-> it, ret |-> Ret("next", 0, "None", 0, NoDigest, <<>>, 0)]

\* mutant: the index steps over the left leaf only, not over the right one
MmrNodes_next_one_step(f, ns, it) ==
    LET target == BitAnd(f, Shl(USIZE_MAX, 1))
    IN  IF it.forest < target
        THEN LET fresh       == it.last_right = 0
                 forest1     == IF fresh THEN BitOr(it.forest, 1) ELSE it.forest
                 last_right1 == IF fresh THEN BitOr(it.last_right, 1) ELSE it.last_right
                 index1      == IF fresh THEN it.index + 1 ELSE it.index
                 right_nodes == nodes_in_forest(last_right1)
                 parent      == Shl(last_right1, 1)
                 forest2     == BitXor(forest1, last_right1)
                 is_left     == BitAnd(forest2, parent) = 0
                 asserts     == /\ count_ones(it.last_right) <= 1
                                /\ BitAnd(forest1, last_right1) # 0
                                /\ is_left => BitAnd(forest2, 1) = 0
                 in_bounds   == /\ index1 < Len(ns)
                                /\ index1 - 1 - right_nodes >= 0
             IN  IF asserts /\ in_bounds
                 THEN [it  |-> [live |-> TRUE,
                                forest |-> IF is_left THEN BitXor(forest2, parent) ELSE forest2,
                                last_right |-> IF is_left THEN 0 ELSE parent,
                                index |-> index1 + 1],
                       ret |-> Ret("next", 0, "Ok", 0, ns[index1 + 1],
                                   <<ns[index1 - right_nodes], ns[index1]>>, 0)]
                 ELSE [it  |-> it,
                       ret |-> Ret("next", 0, "Panic", 0, NoDigest, <<>>, 0)]
        ELSE [it |-> it, ret |-> Ret("next", 0, "None", 0, NoDigest, <<>>, 0)]

\* mutant: an exhausted enumerator starts over
MmrNodes_next_restart(f, ns, it) ==
    LET target == BitAnd(f, Shl(USIZE_MAX, 1))
    IN  IF it.forest < target
        THEN LET fresh       == it.last_right = 0
                 forest1     == IF fresh THEN BitOr(it.forest, 1) ELSE it.forest
                 last_right1 == IF fresh THEN BitOr(it.last_right, 1) ELSE it.last_right
                 index1      == IF fresh THEN it.index + 2 ELSE it.index
                 right_nodes == nodes_in_forest(last_right1)
                 parent      == Shl(last_right1, 1)
                 forest2     == BitXor(forest1, last_right1)
                 is_left     == BitAnd(forest2, parent) = 0
                 asserts     == /\ count_ones(it.last_right) <= 1
                                /\ BitAnd(forest1, last_right1) # 0
                                /\ is_left => BitAnd(forest2, 1) = 0
                 in_bounds   == /\ index1 < Len(ns)
                                /\ index1 - 1 - right_nodes >= 0
             IN  IF asserts /\ in_bounds
                 THEN [it  |-> [live |-> TRUE,
                                forest |-> IF is_left THEN BitXor(forest2, parent) ELSE forest2,
                                last_right |-> IF is_left THEN 0 ELSE parent,
                                index |-> index1 + 1],
                       ret |-> Ret("next", 0, "Ok", 0, ns[index1 + 1],
                                   <<ns[index1 - right_nodes], ns[index1]>>, 0)]
                 ELSE [it  |-> it,
                       ret |-> Ret("next", 0, "Panic", 0, NoDigest, <<>>, 0)]
        ELSE [it  |-> [it EXCEPT !.forest = 0, !.last_right = 0, !.index = 0],
              ret |-> Ret("next", 0, "None", 0, NoDigest, <<>>, 0)]

\* MmrNodes::next: the enumerator after the call and what the call returns
MmrNodes_next(f, ns, it) ==
    LET target == BitAnd(f, Shl(USIZE_MAX, 1))
    IN  IF it.forest < target
        THEN LET fresh       == it.last_right = 0
                 forest1     == IF fresh THEN BitOr(it.forest, 1) ELSE it.forest
                 last_right1 == IF fresh THEN BitOr(it.last_right, 1) ELSE it.last_right
                 index1      == IF fresh THEN it.index + 2 ELSE it.index
                 right_nodes == nodes_in_forest(last_right1)
                 parent      == Shl(last_right1, 1)
                 forest2     == BitXor(forest1, last_right1)
                 is_left     == BitAnd(forest2, parent) = 0
                 asserts     == /\ count_ones(it.last_right) <= 1
                                /\ BitAnd(forest1, last_right1) # 0
                                /\ is_left => BitAnd(forest2, 1) = 0
                 in_bounds   == /\ index1 < Len(ns)
                                /\ index1 - 1 - right_nodes >= 0
             IN  IF asserts /\ in_bounds
                 THEN [it  |-> [live |-> TRUE,
                                forest |-> IF is_left THEN BitXor(forest2, parent) ELSE forest2,
                                last_right |-> IF is_left THEN 0 ELSE parent,
                                index |-> index1 + 1],
                       ret |-> Ret("next", 0, "Ok", 0, ns[index1 + 1],
                                   <<ns[index1 - right_nodes], ns[index1]>>, 0)]
                 ELSE [it  |-> it,
                       ret |-> Ret("next", 0, "Panic", 0, NoDigest, <<>>, 0)]
        ELSE [it |-> it, ret |-> Ret("next", 0, "None", 0, NoDigest, <<>>, 0)]

\* mmr.inner_nodes().collect(): next is called until it returns None
RECURSIVE collect_from(_, _, _, _)
collect_from(f, ns, it, records) ==
    LET r == MmrNodes_next(f, ns, it)
    IN  IF r.ret.status = "Ok"
        THEN collect_from(f, ns, r.it,
                          Append(records, [value |-> r.ret.value,
                                           left  |-> r.ret.list[1],
                                           right |-> r.ret.list[2]]))
        ELSE [status |-> r.ret.status, records |-> records]

collect(f, ns) ==
    LET c == collect_from(f, ns, inner_nodes, <<>>)
    IN  Ret("collect", 0, IF c.status = "None" THEN "Ok" ELSE "Panic",
            0, NoDigest, c.records, f)

\* ------------------------------------------------------------------------
\* MmrPeaks and MmrProof
\* ------------------------------------------------------------------------

\* folds a Merkle path against a value, leaf to root: the bits of the relative
\* position, lowest first, say on which side the sibling goes
RECURSIVE compute_root(_, _, _)
compute_root(path, index, node) ==
    IF path = <<>> THEN node
    ELSE compute_root(Tail(path), index \div 2,
                      IF index % 2 = 0 THEN Merge(node, Head(path))
                                       ELSE Merge(Head(path), node))

\* MmrPeaks::verify(value, proof) on peaks = {num_leaves, peaks} and
\* proof = {forest, position, merkle_path}
verify(num_leaves, peaks, value, proof) ==
    LET tree_bit      == leaf_to_corresponding_tree(proof.position, proof.forest)
        forest_before == BitAnd(proof.forest, high_bitmask(tree_bit + 1))
        relative_pos  == proof.position - forest_before
        peak_index    == count_ones(forest_before)
    IN  /\ tree_bit >= 0
        /\ proof.forest <= num_leaves
        /\ peak_index < Len(peaks)
        /\ compute_root(proof.merkle_path, relative_pos, value) = peaks[peak_index + 1]

\* number of field elements of a digest (Word)
WORD_SIZE == 4

\* least number of digests hash_peaks hashes
MIN_PEAKS == 16

\* RpoDigest::default(): the digest of zero field elements
RpoDigest_default == <<0>>

\* digests_to_elements: every digest gives its WORD_SIZE field elements, in
\* order; <<d, k>> stands for the k-th field element of the digest d
RECURSIVE digests_to_elements(_)
digests_to_elements(digests) ==
    IF digests = <<>> THEN <<>>
    ELSE [k \in 1..WORD_SIZE |-> <<Head(digests), k>>]
             \o digests_to_elements(Tail(digests))

\* Rpo256::hash_elements: equal digests come from equal element sequences only
hash_elements(elements) == [hash_elements |-> elements]

\* mutant: the padding stops at the minimum, an odd longer list is not padded
pad_peaks_min_only(peaks) ==
    IF Len(peaks) < MIN_PEAKS
    THEN peaks \o [k \in 1..(MIN_PEAKS - Len(peaks)) |-> RpoDigest_default]
    ELSE peaks

\* the padding of hash_peaks: zero digests are appended until the length is
\* at least MIN_PEAKS and even
RECURSIVE pad_peaks(_)
pad_peaks(peaks) ==
    IF Len(peaks) < MIN_PEAKS \/ Len(peaks) % 2 = 1
    THEN pad_peaks(Append(peaks, RpoDigest_default))
    ELSE peaks

\* MmrPeaks::hash_peaks
hash_peaks(peaks) == hash_elements(digests_to_elements(pad_peaks(peaks)))

\* mmr.accumulator().verify(value, mmr.open(pos).expect(..)), as the tests call it
verify_opening(f, ns, pos, value) ==
    LET acc     == accumulator(f, ns)
        opening == open(f, ns, pos)
        proof   == [forest |-> opening.forest, position |-> opening.pos,
                    merkle_path |-> opening.list]
    IN  IF acc.status # "Ok" \/ opening.status # "Ok"
        THEN Ret("verify", pos, "Panic", 0, value, <<>>, 0)
        ELSE Ret("verify", pos,
                 IF verify(acc.forest, acc.list, value, proof) THEN "True" ELSE "False",
                 0, value, opening.list, opening.forest)

\* ------------------------------------------------------------------------
\* The state machine
\* ------------------------------------------------------------------------

\* The caller makes one call at a time and uses an enumerator up, or drops it,
\* before its next call on the Mmr: the calls on &self do not act on each
\* other, and add (&mut self) cannot run while the enumerator borrows the Mmr.

\* Mmr::new
Init ==
    /\ forest = 0
    /\ nodes = <<>>
    /\ leaves = <<>>
    /\ iter = NoIter
    /\ ret = Ret("new", 0, "Ok", 0, NoDigest, <<>>, 0)

\* mmr.add(el); the enumerator borrows the Mmr, so none is alive
Add(el) ==
    /\ forest < MaxLeaves
    /\ ~iter.live
    /\ LET m == add(forest, nodes, el)
       IN  /\ forest' = m.forest
           /\ nodes' = m.nodes
    /\ leaves' = Append(leaves, el)
    /\ ret' = Ret("add", 0, "Ok", 0, NoDigest, <<>>, 0)
    /\ UNCHANGED iter

\* mmr.get(pos)
Get(pos) ==
    /\ ~iter.live
    /\ ret' = get(forest, nodes, pos)
    /\ UNCHANGED <<forest, nodes, leaves, iter>>

\* mmr.open(pos)
Open(pos) ==
    /\ ~iter.live
    /\ ret' = open(forest, nodes, pos)
    /\ UNCHANGED <<forest, nodes, leaves, iter>>

\* mmr.accumulator()
Accumulator ==
    /\ ~iter.live
    /\ ret' = accumulator(forest, nodes)
    /\ UNCHANGED <<forest, nodes, leaves, iter>>

\* mmr.accumulator().verify(mmr.get(pos).unwrap(), mmr.open(pos).unwrap())
VerifyGet(pos) ==
    /\ ~iter.live
    /\ pos < forest
    /\ LET g == get(forest, nodes, pos)
       IN  ret' = IF g.status # "Ok"
                  THEN Ret("verify", pos, "Panic", 0, NoDigest, <<>>, 0)
                  ELSE verify_opening(forest, nodes, pos, g.value)
    /\ UNCHANGED <<forest, nodes, leaves, iter>>

\* mmr.accumulator().verify(LEAVES[pos], mmr.open(pos).unwrap())
VerifyLeaf(pos) ==
    /\ ~iter.live
    /\ pos < forest
    /\ ret' = verify_opening(forest, nodes, pos, leaves[pos + 1])
    /\ UNCHANGED <<forest, nodes, leaves, iter>>

\* the first nodes_in_forest(f0) entries of the buffer: the buffer is only ever
\* appended to, so this is the buffer the Mmr had when it held f0 leaves
nodes_at(ns, f0) == SubSeq(ns, 1, nodes_in_forest(f0))

\* proof = mmr.open(pos) taken when the Mmr held f0 leaves, kept by the caller,
\* then mmr.accumulator().verify(LEAVES[pos], proof) on the Mmr of now
verify_kept(f, ns, f0, pos, value) ==
    LET acc     == accumulator(f, ns)
        opening == open(f0, nodes_at(ns, f0), pos)
        proof   == [forest |-> opening.forest, position |-> opening.pos,
                    merkle_path |-> opening.list]
    IN  IF acc.status # "Ok" \/ opening.status # "Ok"
        THEN Ret("verify_kept", pos, "Panic", 0, value, <<>>, f0)
        ELSE Ret("verify_kept", pos,
                 IF verify(acc.forest, acc.list, value, proof) THEN "True" ELSE "False",
                 0, value, opening.list, f0)

VerifyKept(f0, pos) ==
    /\ ~iter.live
    /\ f0 <= forest
    /\ pos < f0
    /\ ret' = verify_kept(forest, nodes, f0, pos, leaves[pos + 1])
    /\ UNCHANGED <<forest, nodes, leaves, iter>>

\* mmr.inner_nodes()
InnerNodes ==
    /\ ~iter.live
    /\ iter' = inner_nodes
    /\ ret' = Ret("inner_nodes", 0, "Ok", 0, NoDigest, <<>>, 0)
    /\ UNCHANGED <<forest, nodes, leaves>>

\* iter.next()
IterNext ==
    /\ iter.live
    /\ LET r == MmrNodes_next(forest, nodes, iter)
       IN  /\ iter' = r.it
           /\ ret' = r.ret
    /\ UNCHANGED <<forest, nodes, leaves>>

\* mmr.inner_nodes().collect(): InnerNodeInfo records {value, left, right}
Collect ==
    /\ ~iter.live
    /\ ret' = collect(forest, nodes)
    /\ UNCHANGED <<forest, nodes, leaves, iter>>

\* the enumerator goes out of scope
IterDrop ==
    /\ iter.live
    /\ iter' = NoIter
    /\ ret' = Ret("drop", 0, "Ok", 0, NoDigest, <<>>, 0)
    /\ UNCHANGED <<forest, nodes, leaves>>

Next ==
    \/ Add(int_to_node(forest + 1))
    \/ \E pos \in Positions : Get(pos)
    \/ \E pos \in Positions : Open(pos)
    \/ Accumulator
    \/ \E pos \in Positions : VerifyGet(pos)
    \/ \E pos \in Positions : VerifyLeaf(pos)
    \/ \E f0 \in 1..MaxLeaves : \E pos \in Positions : VerifyKept(f0, pos)
    \/ InnerNodes
    \/ IterNext
    \/ IterDrop
    \/ Collect

Spec == Init /\ [][Next]_vars

\* the caller of an enumerator keeps calling next for as long as next changes
\* something (Iterator::collect, a for loop), unless it drops the enumerator
FairSpec == Spec /\ WF_vars(IterNext)

\* ------------------------------------------------------------------------
\* The forest arithmetic called on its own, on every usize
\* ------------------------------------------------------------------------

\* every value of usize
Usizes == 0..USIZE_MAX

\* the bit arguments high_bitmask is called with: inside and past the width
BitArgs == 0..(BITS + 2)

\* what a call of nodes_in_forest can end with: forest * 2 overflows above
\* usize::MAX / 2, which panics where overflow checks are on and wraps where
\* they are off
nodes_in_forest_outcomes(f) ==
    IF f * 2 <= USIZE_MAX
    THEN {[status |-> "Ok", value |-> nodes_in_forest(f)]}
    ELSE {[status |-> "Panic", value |-> 0],
          [status |-> "Ok", value |-> (f * 2 - count_ones(f)) % Pow2(BITS)]}

\* the caller picks a forest value; a numeric result is returned in ret.pos
MathInit ==
    /\ forest \in Usizes
    /\ nodes = <<>>
    /\ leaves = <<>>
    /\ iter = NoIter
    /\ ret = Ret("new", 0, "Ok", 0, NoDigest, <<>>, 0)

\* leaf_to_corresponding_tree(pos, forest)
CallLeafToTree(pos) ==
    /\ ret.op = "new"
    /\ LET tree == leaf_to_corresponding_tree(pos, forest)
       IN  ret' = Ret("leaf_to_corresponding_tree", pos,
                      IF tree = None THEN "None"
                      ELSE IF tree = Panicked THEN "Panic" ELSE "Ok",
                      tree, NoDigest, <<>>, forest)
    /\ UNCHANGED <<forest, nodes, leaves, iter>>

\* high_bitmask(bit)
CallHighBitmask(bit) ==
    /\ ret.op = "new"
    /\ ret' = Ret("high_bitmask", bit, "Ok", high_bitmask(bit), NoDigest, <<>>, 0)
    /\ UNCHANGED <<forest, nodes, leaves, iter>>

\* nodes_in_forest(forest)
CallNodesInForest ==
    /\ ret.op = "new"
    /\ \E o \in nodes_in_forest_outcomes(forest) :
           ret' = Ret("nodes_in_forest", forest, o.status, o.value, NoDigest, <<>>, forest)
    /\ UNCHANGED <<forest, nodes, leaves, iter>>

\* TrueBitPositionIterator::new(forest).collect() in ret.list and
\* TrueBitPositionIterator::new(forest).rev().collect() in ret.value
CallBitPositions ==
    /\ ret.op = "new"
    /\ ret' = Ret("bit_positions", forest, "Ok", 0,
                  Reverse(TrueBitPositionIterator(forest)),
                  TrueBitPositionIterator(forest), forest)
    /\ UNCHANGED <<forest, nodes, leaves, iter>>

\* MmrPeaks { num_leaves, peaks }.hash_peaks() on the peaks int_to_node(1),
\* ..., int_to_node(n), built directly as the tests do; the peaks are returned
\* in ret.list and the hash in ret.value
CallHashPeaks(n) ==
    /\ ret.op = "new"
    /\ LET peaks == [i \in 1..n |-> int_to_node(i)]
       IN  ret' = Ret("hash_peaks", n, "Ok", 0, hash_peaks(peaks), peaks, 0)
    /\ UNCHANGED <<forest, nodes, leaves, iter>>

MathNext ==
    \/ \E pos \in Usizes : CallLeafToTree(pos)
    \/ \E bit \in BitArgs : CallHighBitmask(bit)
    \/ CallNodesInForest
    \/ CallBitPositions
    \/ \E n \in 0..MaxPeaks : CallHashPeaks(n)

MathSpec == MathInit /\ [][MathNext]_vars

\* ------------------------------------------------------------------------
\* What the structure is meant to hold: perfect trees over the appended leaves
\* ------------------------------------------------------------------------

\* root of the perfect tree of height h over lv[start + 1 .. start + 2^h]
RECURSIVE TreeRoot(_, _, _)
TreeRoot(lv, start, h) ==
    IF h = 0 THEN lv[start + 1]
    ELSE Merge(TreeRoot(lv, start, h - 1),
               TreeRoot(lv, start + Pow2(h - 1), h - 1))

\* height of the largest perfect tree that fits n >= 1 leaves
RECURSIVE LargestTree(_)
LargestTree(n) == IF n < 2 THEN 0 ELSE 1 + LargestTree(n \div 2)

\* the trees of a forest of n leaves from position start on, largest first,
\* as <<first leaf, height>>
RECURSIVE TreesOf(_, _)
TreesOf(start, n) ==
    IF n = 0 THEN <<>>
    ELSE LET h == LargestTree(n)
         IN  <<(<<start, h>>)>> \o TreesOf(start + Pow2(h), n - Pow2(h))

\* the roots of the trees over lv, largest tree first
ExpectedPeaks(lv) ==
    LET trees == TreesOf(0, Len(lv))
    IN  [i \in 1..Len(trees) |-> TreeRoot(lv, trees[i][1], trees[i][2])]

\* the tree <<first leaf, height>> whose range of leaves holds position p
OwningTree(n, p) ==
    LET trees == TreesOf(0, n)
        i     == CHOOSE j \in 1..Len(trees) :
                     trees[j][1] <= p /\ p < trees[j][1] + Pow2(trees[j][2])
    IN  trees[i]

\* the siblings of leaf p inside its tree, leaf to root: entry i + 1 is the
\* root of the sibling subtree of height i
ExpectedPath(lv, p) ==
    LET tree  == OwningTree(Len(lv), p)
        first == tree[1]
        rel   == p - first
    IN  [k \in 1..tree[2] |->
            LET i       == k - 1
                own     == rel \div Pow2(i)
                sibling == IF own % 2 = 0 THEN own + 1 ELSE own - 1
            IN  TreeRoot(lv, first + sibling * Pow2(i), i)]

\* sum over every set bit b of f of 2^(b+1) - 1
RECURSIVE SumTreeSizes(_, _)
SumTreeSizes(f, b) ==
    IF f = 0 THEN 0
    ELSE (IF f % 2 = 1 THEN Pow2(b + 1) - 1 ELSE 0) + SumTreeSizes(f \div 2, b + 1)

\* heights of the nodes of a perfect tree of height h, in postorder
RECURSIVE PostorderHeights(_)
PostorderHeights(h) ==
    IF h = 0 THEN <<0>>
    ELSE PostorderHeights(h - 1) \o PostorderHeights(h - 1) \o <<h>>

RECURSIVE HeightsOfTrees(_)
HeightsOfTrees(trees) ==
    IF trees = <<>> THEN <<>>
    ELSE PostorderHeights(Head(trees)[2]) \o HeightsOfTrees(Tail(trees))

\* entry i + 1 is the height of the node at buffer index i of a forest of n
\* leaves: the trees one after the other, largest first, each in postorder
BufferHeights(n) == HeightsOfTrees(TreesOf(0, n))

\* the buffer indices (from 0) of the non-leaf entries, ascending
InnerIndices(n) ==
    LET hs == BufferHeights(n)
    IN  SelectSeq([i \in 1..Len(hs) |-> i - 1], LAMBDA i : hs[i + 1] > 0)

\* number of entries of the sequence s equal to d
Count(s, d) == Cardinality({i \in DOMAIN s : s[i] = d})

Range(s) == {s[i] : i \in DOMAIN s}

\* bit b of v is set
BitSet(v, b) == (v \div Pow2(b)) % 2 = 1

IsPrefix(s, t) == Len(s) <= Len(t) /\ SubSeq(t, 1, Len(s)) = s

\* ------------------------------------------------------------------------
\* Claims
\* ------------------------------------------------------------------------

\* C1: round-trip proof validity: for every position p below the number of
\* leaves, accumulator().verify(get(p), open(p)) and
\* accumulator().verify(d_p, open(p)) return true.
C1_RoundTrip ==
    ret.op = "verify" => ret.status = "True"

\* C2: get(p) returns the digest d_p that was appended at position p, for
\* every leaf count.
C2_GetReturnsLeaf ==
    (ret.op = "get" /\ ret.arg < Len(leaves))
        => (ret.status = "Ok" /\ ret.value = leaves[ret.arg + 1])

\* C3: open(p).merkle_path lists the siblings of leaf p inside its tree, leaf
\* to root: entry i is the root of the sibling subtree of height i.
C3_PathIsSiblings ==
    (ret.op = "open" /\ ret.arg < Len(leaves))
        => (ret.status = "Ok" /\ ret.list = ExpectedPath(leaves, ret.arg))

\* C4: on an Mmr of k leaves get(p) and open(p) return InvalidPosition(p) for
\* every p >= k and Ok for every p < k; they never panic and they leave the
\* Mmr as it was.
C4_OutOfRange ==
    [][ret'.op \in {"get", "open"} =>
          /\ forest' = forest
          /\ nodes' = nodes
          /\ ret'.arg >= forest => (ret'.status = "Err" /\ ret'.pos = ret'.arg)
          /\ ret'.arg < forest => ret'.status = "Ok"]_vars

C4_Witness ==
    /\ ret.op = "open"
    /\ ret.status = "Err"
    /\ ret.arg = forest
    /\ ret.pos = forest
    /\ forest >= 1

\* C5: a new Mmr has forest 0, every add raises forest by exactly one, so
\* forest is the number of appends, and forest never decreases.
C5_LeafCount ==
    [][/\ forest = Len(leaves)
       /\ forest' = Len(leaves')
       /\ forest' >= forest
       /\ ret'.op = "add" => forest' = forest + 1]_vars

C5_Witness ==
    ret.op = "add" /\ forest = 8 /\ Len(leaves) = 8

\* C6: the buffer holds nodes_in_forest(forest) entries, which is the sum over
\* every set bit b of forest of 2^(b+1) - 1.
C6_BufferLength ==
    /\ Len(nodes) = nodes_in_forest(forest)
    /\ Len(nodes) = SumTreeSizes(forest, 0)

C6_Witness ==
    forest = 7 /\ Len(nodes) = 11

\* C7: after k appends accumulator().num_leaves is k and the number of peaks
\* is the number of set bits of k.
C7_AccumulatorCounts ==
    ret.op = "accumulator" =>
        /\ ret.status = "Ok"
        /\ ret.forest = Len(leaves)
        /\ Len(ret.list) = count_ones(Len(leaves))

C7_Witness ==
    ret.op = "accumulator" /\ ret.forest = 11 /\ Len(ret.list) = 3

\* C8: the peaks of accumulator() are the roots of the perfect trees over the
\* consecutive ranges of leaves, highest tree first.
C8_PeaksAreRoots ==
    ret.op = "accumulator" =>
        (ret.status = "Ok" /\ ret.list = ExpectedPeaks(leaves))

C8_Witness ==
    /\ ret.op = "accumulator"
    /\ forest = 7
    /\ ret.list = << Merge(Merge(leaves[1], leaves[2]), Merge(leaves[3], leaves[4])),
                    Merge(leaves[5], leaves[6]),
                    leaves[7] >>

\* C9: accumulator() on the empty Mmr returns num_leaves = 0 and no peaks: it
\* reads no buffer entry and does not panic.
C9_EmptyAccumulator ==
    (ret.op = "accumulator" /\ forest = 0) =>
        (ret.status = "Ok" /\ ret.forest = 0 /\ ret.list = <<>>)

C9_Witness ==
    ret.op = "accumulator" /\ forest = 0 /\ nodes = <<>> /\ ret.status = "Ok"

\* C10: the buffer is append-only: every step keeps the old buffer as a prefix
\* of the new one, and get, open, accumulator and inner_nodes change neither
\* the buffer nor forest.
C10_AppendOnly ==
    [][/\ IsPrefix(nodes, nodes')
       /\ ret'.op \in {"get", "open", "accumulator", "inner_nodes"}
              => (nodes' = nodes /\ forest' = forest)]_vars

C10_Witness ==
    ret.op = "add" /\ forest = 4 /\ Len(nodes) = 7

\* C11: leaf_to_corresponding_tree(p, f) returns Some(b) with b below the bit
\* width and bit b set in f for every p < f (the argument of ilog2 is never
\* zero, so the call does not panic), and None for every p >= f, f = 0
\* included.
C11_TreeOfLeaf ==
    ret.op = "leaf_to_corresponding_tree" =>
        IF ret.arg < forest
        THEN /\ ret.status = "Ok"
             /\ ret.pos \in 0..(BITS - 1)
             /\ BitSet(forest, ret.pos)
        ELSE ret.status = "None"

C11_Witness ==
    /\ ret.op = "leaf_to_corresponding_tree"
    /\ forest = 7 /\ ret.arg = 5
    /\ ret.status = "Ok" /\ ret.pos = 1

C13_InnerNodesOnce ==
    ret.op = "collect" =>
        LET inner  == InnerIndices(forest)
            values == [k \in 1..Len(ret.list) |-> ret.list[k].value]
            held   == [k \in 1..Len(inner) |-> nodes[inner[k] + 1]]
        IN  /\ ret.status = "Ok"
            /\ Len(ret.list) = forest - count_ones(forest)
            /\ forest \in {0, 1} => ret.list = <<>>
            /\ \A d \in Range(values) \cup Range(held) :
                   Count(values, d) = Count(held, d)

C13_Witness ==
    /\ ret.op = "collect" /\ ret.status = "Ok"
    /\ forest = 8 /\ Len(ret.list) = 7

\* C14: every record {value, left, right} yielded by inner_nodes has
\* value = merge(left, right), left and right are the buffer entries of the
\* node's left and right child, and the records come in ascending buffer
\* index of value (for 7 leaves: h01, h23, h0123, h45).
C14_RecordsAreFamilies ==
    ret.op = "collect" =>
        LET inner == InnerIndices(forest)
            hs    == BufferHeights(forest)
        IN  /\ Len(ret.list) = Len(inner)
            /\ \A k \in 1..Len(ret.list) :
                   LET i == inner[k]
                       h == hs[i + 1]
                   IN  /\ ret.list[k].value = nodes[i + 1]
                       /\ ret.list[k].right = nodes[(i - 1) + 1]
                       /\ ret.list[k].left = nodes[(i - Pow2(h)) + 1]
                       /\ ret.list[k].value = Merge(ret.list[k].left, ret.list[k].right)

C14_Witness ==
    /\ ret.op = "collect" /\ forest = 7
    /\ LET h01 == Merge(int_to_node(1), int_to_node(2))
           h23 == Merge(int_to_node(3), int_to_node(4))
           h45 == Merge(int_to_node(5), int_to_node(6))
       IN  ret.list =
               << [value |-> h01, left |-> int_to_node(1), right |-> int_to_node(2)],
                  [value |-> h23, left |-> int_to_node(3), right |-> int_to_node(4)],
                  [value |-> Merge(h01, h23), left |-> h01, right |-> h23],
                  [value |-> h45, left |-> int_to_node(5), right |-> int_to_node(6)] >>

\* C15: for every p < forest() the proof returned by open(p) has forest equal
\* to the forest of the Mmr at the time of the call and position equal to the
\* absolute position p that was asked for, not the position relative to the
\* owning tree.
C15_ProofCarriesForestAndPosition ==
    ret.op = "open" /\ ret.arg < forest =>
        /\ ret.status = "Ok"
        /\ ret.forest = forest
        /\ ret.pos = ret.arg

\* position 5 of 7 leaves is position 1 of the second tree
C15_Witness ==
    /\ ret.op = "open" /\ ret.status = "Ok"
    /\ forest = 7 /\ ret.arg = 5 /\ ret.pos = 5 /\ ret.forest = 7
    /\ ret.list = <<int_to_node(5)>>

\* C16: for a peaks list of length n, hash_peaks hashes the flattening of
\* exactly max(16, n rounded up to even) digests, the n peaks in order followed
\* by zero digests (1 peak -> 16, 16 peaks -> 16, 17 peaks -> 18), each digest
\* giving 4 field elements.
C16_HashPeaksPadding ==
    ret.op = "hash_peaks" =>
        LET n        == Len(ret.list)
            even     == n + (n % 2)
            target   == IF even < 16 THEN 16 ELSE even
            expected == [i \in 1..target |->
                            IF i <= n THEN ret.list[i] ELSE RpoDigest_default]
            hashed   == ret.value.hash_elements
        IN  /\ ret.value = hash_elements(digests_to_elements(expected))
            /\ Len(hashed) = 4 * target
            /\ \A i \in 1..target : \A k \in 1..4 :
                   hashed[4 * (i - 1) + k] = <<expected[i], k>>

\* 17 peaks are padded to 18 digests, 72 field elements
C16_Witness ==
    /\ ret.op = "hash_peaks" /\ ret.arg = 17
    /\ Len(ret.value.hash_elements) = 72
    /\ ret.value.hash_elements[68] = <<int_to_node(17), 4>>
    /\ ret.value.hash_elements[69] = <<RpoDigest_default, 1>>

\* C17: high_bitmask(bit) is the integer with exactly the bits at positions
\* >= bit set for every bit from 0 to width - 1 (all ones for bit 0), and 0 for
\* every bit >= width, the shift does not wrap.
C17_HighBitmask ==
    ret.op = "high_bitmask" =>
        /\ ret.status = "Ok"
        /\ ret.pos \in Usizes
        /\ \A b \in 0..(BITS - 1) : BitSet(ret.pos, b) <=> b >= ret.arg
        /\ ret.arg = 0 => ret.pos = USIZE_MAX
        /\ ret.arg >= BITS => ret.pos = 0

C17_Witness ==
    /\ ret.op = "high_bitmask"
    /\ ret.arg = BITS - 1 /\ ret.pos = Pow2(BITS - 1)

\* C18: for every forest value f that does not overflow, nodes_in_forest(f) =
\* 2 * f - popcount(f) is the sum over the set bits b of f of 2^(b+1) - 1; in
\* particular nodes_in_forest(0) = 0 and nodes_in_forest(2^b) = 2^(b+1) - 1.
C18_NodesInForest ==
    ret.op = "nodes_in_forest" /\ ret.arg * 2 <= USIZE_MAX =>
        /\ ret.status = "Ok"
        /\ ret.pos = 2 * ret.arg - count_ones(ret.arg)
        /\ ret.pos = SumTreeSizes(ret.arg, 0)
        /\ ret.arg = 0 => ret.pos = 0
        /\ \A b \in 0..(BITS - 2) : ret.arg = Pow2(b) => ret.pos = Pow2(b + 1) - 1

C18_Witness ==
    /\ ret.op = "nodes_in_forest" /\ ret.status = "Ok"
    /\ ret.arg = 11 /\ ret.pos = 19

\* C19: TrueBitPositionIterator over v yields exactly the indices of the set
\* bits of v in ascending order, and in descending order when reversed; it
\* yields nothing for v = 0.
C19_BitPositions ==
    ret.op = "bit_positions" =>
        LET asc  == ret.list
            desc == ret.value
            set  == {b \in 0..(BITS - 1) : BitSet(ret.arg, b)}
        IN  /\ Range(asc) = set /\ Len(asc) = Cardinality(set)
            /\ \A i \in 1..(Len(asc) - 1) : asc[i] < asc[i + 1]
            /\ Range(desc) = set /\ Len(desc) = Cardinality(set)
            /\ \A i \in 1..(Len(desc) - 1) : desc[i] > desc[i + 1]
            /\ ret.arg = 0 => asc = <<>> /\ desc = <<>>

C19_Witness ==
    /\ ret.op = "bit_positions" /\ ret.arg = 213
    /\ ret.list = <<0, 2, 4, 6, 7>> /\ ret.value = <<7, 6, 4, 2, 0>>

\* C20: postorder structure of the buffer: in every reachable state every
\* non-leaf entry at buffer index i, the root of a subtree of 2^h leaves, is
\* merge(left, right) with right the entry at i - 1 and left the entry at
\* i - 1 - nodes_in_forest(2^(h-1)); add merges the older tree as the left
\* operand and the newer one as the right, so the leaf entries are the
\* appended digests in the order of their appends.
C20_PostorderStructure ==
    LET hs        == BufferHeights(forest)
        leaf_idx  == SelectSeq([i \in 1..Len(hs) |-> i - 1], LAMBDA i : hs[i + 1] = 0)
    IN  /\ Len(nodes) = Len(hs)
        /\ \A i \in 0..(Len(nodes) - 1) :
               hs[i + 1] > 0 =>
                   LET right == nodes[(i - 1) + 1]
                       left  == nodes[(i - 1 - nodes_in_forest(Pow2(hs[i + 1] - 1))) + 1]
                   IN  nodes[i + 1] = Merge(left, right)
        /\ Len(leaf_idx) = Len(leaves)
        /\ \A k \in 1..Len(leaf_idx) : nodes[leaf_idx[k] + 1] = leaves[k]

\* eight leaves: the root at index 14 merges the entries at 6 and 13
C20_Witness ==
    /\ forest = 8 /\ Len(nodes) = 15 /\ ret.op = "add"
    /\ nodes[15] = Merge(nodes[7], nodes[14])
    /\ nodes[7] = TreeRoot(leaves, 0, 2)
    /\ nodes[14] = TreeRoot(leaves, 4, 2)

\* C21: an add on an Mmr with forest f performs exactly t merges, t the number
\* of trailing one bits of f, and pushes exactly t + 1 entries: the leaf, then
\* the merged roots of depth 1..t in increasing depth; it stops at the first
\* depth whose bit is clear in f and then sets forest to f + 1.
C21_CascadeMerges ==
    [][ret'.op = "add" =>
          LET t == TrailingOnes(forest)
              n == Len(nodes)
          IN  /\ ~BitSet(forest, t)
              /\ forest' = forest + 1
              /\ Len(nodes') = n + t + 1
              /\ nodes'[n + 1] = leaves'[forest + 1]
              /\ \A j \in 1..t :
                     /\ nodes'[n + 1 + j] = TreeRoot(leaves', forest + 1 - Pow2(j), j)
                     /\ nodes'[n + 1 + j] =
                            Merge(nodes'[n + 1 + j - Pow2(j)], nodes'[n + j])]_vars

\* the add on 7 leaves merges three times
C21_Witness ==
    /\ ret.op = "add" /\ forest = 8 /\ Len(nodes) = 15
    /\ nodes[12] = int_to_node(8)
    /\ nodes[13] = Merge(int_to_node(7), int_to_node(8))
    /\ nodes[15] = TreeRoot(leaves, 0, 3)

\* C22: for every p < forest() the number of digests in open(p).merkle_path is
\* the bit index b returned by leaf_to_corresponding_tree(p, forest()), the
\* depth of the owning tree (0 for a single-leaf tree, b for 2^b leaves).
C22_PathLengthIsDepth ==
    ret.op = "open" /\ ret.arg < forest =>
        /\ ret.status = "Ok"
        /\ Len(ret.list) = leaf_to_corresponding_tree(ret.arg, forest)

\* C23: for every forest f and p < f the bit b returned by
\* leaf_to_corresponding_tree(p, f) is the tree whose range holds p: with
\* before = f & high_bitmask(b + 1), the leaves of all higher trees,
\* before <= p < before + 2^b, so the relative position p - before of get and
\* open does not underflow and is below 2^b.
C23_ContiguousOwnership ==
    ret.op = "leaf_to_corresponding_tree" /\ ret.arg < forest =>
        LET b            == ret.pos
            before       == BitAnd(forest, high_bitmask(b + 1))
            relative_pos == ret.arg - before
        IN  /\ ret.status = "Ok"
            /\ before <= ret.arg
            /\ ret.arg < before + Pow2(b)
            /\ relative_pos \in 0..(Pow2(b) - 1)

\* position 9 of 11 leaves is in the two-leaf tree after the eight-leaf tree
C23_Witness ==
    /\ ret.op = "leaf_to_corresponding_tree" /\ ret.status = "Ok"
    /\ forest = 11 /\ ret.arg = 9 /\ ret.pos = 1
    /\ BitAnd(forest, high_bitmask(2)) = 8

\* C24: for every forest f >= 1, leaf_to_corresponding_tree(0, f) is the index
\* of the highest set bit of f.
C24_PositionZeroHighestTree ==
    ret.op = "leaf_to_corresponding_tree" /\ ret.arg = 0 /\ forest >= 1 =>
        /\ ret.status = "Ok"
        /\ BitSet(forest, ret.pos)
        /\ forest < Pow2(ret.pos + 1)

C24_Witness ==
    /\ ret.op = "leaf_to_corresponding_tree" /\ ret.status = "Ok"
    /\ forest = 11 /\ ret.arg = 0 /\ ret.pos = 3

\* C25: for every forest f >= 1, leaf_to_corresponding_tree(f - 1, f) is the
\* index of the lowest set bit of f, its number of trailing zeros.
C25_LastPositionLastTree ==
    ret.op = "leaf_to_corresponding_tree" /\ forest >= 1 /\ ret.arg = forest - 1 =>
        /\ ret.status = "Ok"
        /\ ret.pos = TrailingZeros(forest)
        /\ BitSet(forest, ret.pos)
        /\ forest % Pow2(ret.pos) = 0

C25_Witness ==
    /\ ret.op = "leaf_to_corresponding_tree" /\ ret.status = "Ok"
    /\ forest = 12 /\ ret.arg = 11 /\ ret.pos = 2

\* C26: get is stable under later appends: if get(p) returns the digest d on
\* an Mmr of k leaves (p < k), get(p) still returns d after any further
\* sequence of add calls; stated for one add, a sequence of them follows.
C26_GetStable ==
    [][ret'.op = "add" =>
          \A p \in 0..(forest - 1) :
              /\ get(forest, nodes, p).status = "Ok"
              /\ get(forest', nodes', p).status = "Ok"
              /\ get(forest', nodes', p).value = get(forest, nodes, p).value]_vars

\* C27: for every reachable Mmr and every p < forest() the walk of
\* collect_merkle_path_and_value never underflows (index - 1, right_offset -
\* nodes_in_forest(..)), every buffer access index_offset + offset is inside
\* the buffer and inside the node range of the owning tree, and get and open
\* never panic on a valid position.
C27_IndexSafety ==
    ret.op \in {"get", "open"} /\ ret.arg < forest =>
        LET walk         == locate_and_collect(forest, nodes, ret.arg)
            tree_bit     == leaf_to_corresponding_tree(ret.arg, forest)
            index_offset == nodes_in_forest(BitAnd(forest, high_bitmask(tree_bit + 1)))
            tree_nodes   == nodes_in_forest(Pow2(tree_bit))
        IN  /\ ret.status = "Ok"
            /\ ~walk.panic
            /\ Len(walk.reads) >= 1
            /\ \A k \in 1..Len(walk.reads) :
                   /\ walk.reads[k] \in 0..(Len(nodes) - 1)
                   /\ walk.reads[k] \in index_offset..(index_offset + tree_nodes - 1)

\* position 9 of 11 leaves: the walk reads d8 and d9 of the two-leaf tree
C27_Witness ==
    /\ ret.op = "open" /\ ret.status = "Ok"
    /\ forest = 11 /\ ret.arg = 9
    /\ locate_and_collect(forest, nodes, 9).reads = <<15, 16>>

\* C28: the assertions of the MmrNodes state machine hold in every state
\* reached by repeated next() on an Mmr built by add: last_right has at most
\* one bit set on entry, the scratch forest and last_right share a bit when a
\* parent is computed, the scratch forest has its lowest bit clear after a left
\* parent is yielded, and the buffer reads at index, index - 1 and
\* index - 1 - right_nodes are in bounds without underflow.
C28_EnumeratorAssertions ==
    /\ ret.op = "next" => ret.status # "Panic"
    /\ iter.live =>
           LET target      == BitAnd(forest, Shl(USIZE_MAX, 1))
               fresh       == iter.last_right = 0
               forest1     == IF fresh THEN BitOr(iter.forest, 1) ELSE iter.forest
               last_right1 == IF fresh THEN 1 ELSE iter.last_right
               index1      == IF fresh THEN iter.index + 2 ELSE iter.index
               right_nodes == nodes_in_forest(last_right1)
           IN  /\ count_ones(iter.last_right) <= 1
               /\ iter.last_right = 0 => BitAnd(iter.forest, 1) = 0
               /\ iter.forest < target =>
                      /\ BitAnd(forest1, last_right1) # 0
                      /\ index1 < Len(nodes)
                      /\ index1 - 1 - right_nodes >= 0

\* eight leaves, six parents yielded: the root of the whole tree comes next
C28_Witness ==
    /\ ret.op = "next" /\ ret.status = "Ok" /\ iter.live
    /\ forest = 8 /\ iter.forest = 4 /\ iter.last_right = 4 /\ iter.index = 14

\* C29: the inner_nodes enumerator is finite and one-shot: repeated next()
\* returns None after finitely many calls, exactly when the scratch forest
\* equals the Mmr forest with the lowest bit cleared (the scratch forest never
\* exceeds that target), and every later next() also returns None with the
\* enumerator unchanged.
C29_FiniteOneShot ==
    /\ [](iter.live => iter.forest <= BitAnd(forest, Shl(USIZE_MAX, 1)))
    /\ [][ret'.op = "next" =>
             /\ (ret'.status = "None") <=> (iter.forest = BitAnd(forest, Shl(USIZE_MAX, 1)))
             /\ ret'.status = "None" => iter' = iter
             /\ ret'.status # "None" => (ret'.status = "Ok" /\ iter'.index > iter.index)]_vars
    /\ [](iter.live => <>(~iter.live \/ (ret.op = "next" /\ ret.status = "None")))

\* the enumerator over eight leaves is exhausted after its seven parents
C29_Witness ==
    /\ ret.op = "next" /\ ret.status = "None" /\ iter.live
    /\ forest = 8 /\ iter.forest = 8 /\ iter.index = 15

\* C30: nodes_in_forest panics exactly when the forest is greater than
\* usize::MAX / 2: up to usize::MAX / 2 the computation forest * 2 -
\* popcount(forest) stays within the integer width, and for every larger
\* forest the multiplication overflows and is reported as a panic, not
\* returned as a wrapped result.
C30_PanicsOnOverflow ==
    ret.op = "nodes_in_forest" =>
        IF ret.arg <= USIZE_MAX \div 2
        THEN /\ ret.status = "Ok"
             /\ ret.pos = ret.arg * 2 - count_ones(ret.arg)
             /\ ret.pos \in Usizes
        ELSE ret.status = "Panic"

====
